---- MODULE Spec2Model ----
(***************************************************************************)
(* Tournament results manager: the category allocation engine              *)
(* (applyFilters in src/src/pages/Index.tsx), the category handlers that   *)
(* re-run it, and the spreadsheet upload that feeds it.                    *)
(*                                                                         *)
(* Eight specifications share this module:                                 *)
(*   SpecMatch  the filter predicate of a non-Open category, as a function *)
(*              of a row sequence and a filter list;                       *)
(*   SpecAlloc  one call of applyFilters, one category per step, with its  *)
(*              globalUsedPlayers set visible;                             *)
(*   SpecCalls  applyFilters called again and again on the same rows, as   *)
(*              the handlers of the page call it;                          *)
(*   Spec       the page: upload, add, update, delete and reorder;         *)
(*   SpecIngest the rows that handleFile makes of a parsed sheet;          *)
(*   SpecForm   the category form of CategoryManager over a loaded page;   *)
(*   SpecOrder  applyFilters on the lists whose order matters, compared    *)
(*              with applyFilters on a prefix, a sublist or a reordering;  *)
(*   SpecFrame  delete and update called with any id, stored or not.       *)
(*                                                                         *)
(* JavaScript strings are sequences of one-character strings, so that      *)
(* toLowerCase, includes, String(), Number() and JSON.stringify are        *)
(* computed and not assumed.  Numbers are integers.                        *)
(***************************************************************************)
EXTENDS Integers, Sequences, FiniteSets, TLC

VARIABLES
    \* SpecMatch
    mData,            \* allData handed to the filter predicate
    mFilters,         \* category.filters
    mPc,              \* "call" | "done"
    mMatching,        \* matchingPlayers
    \* SpecAlloc
    aData,            \* allData
    aList,            \* categoryList
    aOut,             \* the array map() has built so far
    aUsed,            \* globalUsedPlayers
    aLog,             \* globalUsedPlayers before each processed category
    aPrev,            \* SpecCalls: the first call, its inputs and its result
    \* Spec
    tournamentData,   \* Index state: the Row Store
    columns,          \* Index state: header names
    categories,       \* Index state: the stored category list
    now,              \* Date.now()
    reading,          \* files whose arrayBuffer() promise is pending
    error,            \* FileUpload state
    lastOp,           \* the handler that ran last, with its arguments
    issued,           \* the ids handleAddCategory has given out so far, those
                      \* that Date.now() has moved past left out
    \* SpecIngest
    iSheet,           \* jsonData: the sheet as arrays, header row first
    iRows,            \* processedData
    iPc,              \* "read" | "uploaded" | "rejected"
    \* SpecForm
    formData,         \* CategoryManager state: the form fields
    editId,           \* CategoryManager state: the category being edited
    showForm          \* CategoryManager state: the form is open

mVars == <<mData, mFilters, mPc, mMatching>>
aVars == <<aData, aList, aOut, aUsed, aLog, aPrev>>
pVars == <<tournamentData, columns, categories, now, reading, error, lastOp, issued>>
iVars == <<iSheet, iRows, iPc>>
fVars == <<formData, editId, showForm>>
vars == <<mVars, aVars, pVars, iVars, fVars>>

\* ----------------------------------------------------------------- bounds
MaxRows == 2
MaxCats == 2
MaxLimit == 1
MaxFilters == 2
MaxStored == 2
MaxClock == 1
MaxReading == 2
MaxFormFilters == 1

\* ------------------------------------------------------------ JS values
\* string | number | undefined
Num(n) == [kind |-> "number", num |-> n, str |-> <<>>]
Str(s) == [kind |-> "string", num |-> 0, str |-> s]
undefined == [kind |-> "undefined", num |-> 0, str |-> <<>>]

NaN == [nan |-> TRUE, n |-> 0]
Finite(n) == [nan |-> FALSE, n |-> n]

Digits == <<"0", "1", "2", "3", "4", "5", "6", "7", "8", "9">>
UpperCase == <<"A", "B", "C", "D", "E", "F", "G", "H", "I", "J", "K", "L", "M",
               "N", "O", "P", "Q", "R", "S", "T", "U", "V", "W", "X", "Y", "Z">>
LowerCase == <<"a", "b", "c", "d", "e", "f", "g", "h", "i", "j", "k", "l", "m",
               "n", "o", "p", "q", "r", "s", "t", "u", "v", "w", "x", "y", "z">>

Min(a, b) == IF a < b THEN a ELSE b
Max(a, b) == IF a > b THEN a ELSE b

\* Number.prototype.toString for an integer
RECURSIVE NatToString(_)
NatToString(n) ==
    IF n < 10 THEN <<Digits[n + 1]>>
    ELSE NatToString(n \div 10) \o <<Digits[(n % 10) + 1]>>

NumberToString(n) == IF n < 0 THEN <<"-">> \o NatToString(0 - n) ELSE NatToString(n)

\* String(v)
String(v) ==
    CASE v.kind = "number" -> NumberToString(v.num)
      [] v.kind = "string" -> v.str
      [] OTHER -> <<"u", "n", "d", "e", "f", "i", "n", "e", "d">>

\* String.prototype.toLowerCase
LowerChar(c) ==
    IF \E i \in 1..Len(UpperCase) : UpperCase[i] = c
    THEN LowerCase[CHOOSE i \in 1..Len(UpperCase) : UpperCase[i] = c]
    ELSE c

\* the string left as it is
toLowerCaseNone(s) == s

toLowerCase(s) == [i \in 1..Len(s) |-> LowerChar(s[i])]

\* String.prototype.includes
includes(s, sub) ==
    \E i \in 0..(Len(s) - Len(sub)) : SubSeq(s, i + 1, i + Len(sub)) = sub

\* String.prototype.trim, as Number() applies it before parsing
RECURSIVE trim(_)
trim(s) ==
    IF s = <<>> THEN s
    ELSE IF Head(s) = " " THEN trim(Tail(s))
    ELSE IF s[Len(s)] = " " THEN trim(SubSeq(s, 1, Len(s) - 1))
    ELSE s

IsDigit(c) == \E i \in 1..Len(Digits) : Digits[i] = c
DigitValue(c) == (CHOOSE i \in 1..Len(Digits) : Digits[i] = c) - 1

RECURSIVE ParseDigits(_)
ParseDigits(s) ==
    IF s = <<>> THEN 0
    ELSE 10 * ParseDigits(SubSeq(s, 1, Len(s) - 1)) + DigitValue(s[Len(s)])

AllDigits(s) == s # <<>> /\ \A i \in 1..Len(s) : IsDigit(s[i])

\* Number(v): a number is itself, undefined is NaN, a string is trimmed and
\* then 0 when empty, its value when it is a signed decimal integer, else NaN.
Number(v) ==
    CASE v.kind = "number" -> Finite(v.num)
      [] v.kind = "undefined" -> NaN
      [] OTHER ->
           LET t == trim(v.str) IN
           IF t = <<>> THEN Finite(0)
           ELSE IF AllDigits(t) THEN Finite(ParseDigits(t))
           ELSE IF Head(t) = "-" /\ AllDigits(Tail(t)) THEN Finite(0 - ParseDigits(Tail(t)))
           ELSE IF Head(t) = "+" /\ AllDigits(Tail(t)) THEN Finite(ParseDigits(Tail(t)))
           ELSE NaN

\* a > b and a < b on the results of Number(): false when either is NaN
GreaterThan(a, b) == ~a.nan /\ ~b.nan /\ a.n > b.n
\* a <= b in the place of a < b
LessThanOrEqual(a, b) == ~a.nan /\ ~b.nan /\ a.n <= b.n

LessThan(a, b) == ~a.nan /\ ~b.nan /\ a.n < b.n

\* truthiness of category.limit in `category.limit ? ... : ...`
Truthy(v) ==
    CASE v.kind = "number" -> v.num # 0
      [] v.kind = "string" -> v.str # <<>>
      [] OTHER -> FALSE

\* Array.prototype.slice(0, end)
slice(s, end) ==
    IF end < 0 THEN SubSeq(s, 1, Max(Len(s) + end, 0))
    ELSE SubSeq(s, 1, Min(end, Len(s)))

\* ------------------------------------------------------------------ rows
\* A TournamentData object is its entries in insertion order: <<key, value>>.
Entry(k, v) == <<k, v>>

\* row[column]
Get(row, column) ==
    IF \E i \in 1..Len(row) : row[i][1] = column
    THEN row[CHOOSE i \in 1..Len(row) : row[i][1] = column][2]
    ELSE undefined

\* JSON.stringify of one value (the strings of the model hold no quote or
\* backslash, so nothing is escaped)
StringifyValue(v) ==
    CASE v.kind = "number" -> NumberToString(v.num)
      [] v.kind = "string" -> <<"\"">> \o v.str \o <<"\"">>
      [] OTHER -> <<>>

RECURSIVE StringifyEntries(_, _)
StringifyEntries(row, i) ==
    IF i > Len(row) THEN <<>>
    ELSE (IF i > 1 THEN <<",">> ELSE <<>>)
         \o <<"\"", row[i][1], "\"", ":">> \o StringifyValue(row[i][2])
         \o StringifyEntries(row, i + 1)

\* JSON.stringify(row): the player key
JSONstringify(row) == <<"{">> \o StringifyEntries(row, 1) \o <<"}">>

\* --------------------------------------------------------------- filters
Filter(column, type, value) ==
    [filterColumn |-> column, filterType |-> type, filterValue |-> value]

\* only undefined taken as empty
IsEmptyFilterValueUndefined(filterValue) == filterValue.kind = "undefined"

\* filterValue === '' || filterValue === undefined || filterValue === null
IsEmptyFilterValue(filterValue) ==
    \/ filterValue.kind = "undefined"
    \/ filterValue.kind = "string" /\ filterValue.str = <<>>

\* the switch on f.filterType
currentFilterMatches(f, row) ==
    LET columnValue == Get(row, f.filterColumn)
        filterValue == f.filterValue
    IN  CASE f.filterType = "equal" ->
               toLowerCase(String(columnValue)) = toLowerCase(String(filterValue))
          [] f.filterType = "greater" ->
               GreaterThan(Number(columnValue), Number(filterValue))
          [] f.filterType = "less" ->
               LessThan(Number(columnValue), Number(filterValue))
          [] f.filterType = "contains" ->
               includes(toLowerCase(String(columnValue)), toLowerCase(String(filterValue)))
          [] OTHER -> FALSE

\* the for..of loop over category.filters from position k on: continue on an
\* empty filter value, break with true on the first filter that matches
\* AND across the filters, as an earlier version of the loop had it
FilterLoopAnd(row, filters, k) ==
    \A j \in k..Len(filters) :
        \/ IsEmptyFilterValue(filters[j].filterValue)
        \/ currentFilterMatches(filters[j], row)

RECURSIVE FilterLoop(_, _, _)
FilterLoop(row, filters, k) ==
    IF k > Len(filters) THEN FALSE
    ELSE IF IsEmptyFilterValue(filters[k].filterValue) THEN FilterLoop(row, filters, k + 1)
    ELSE IF currentFilterMatches(filters[k], row) THEN TRUE
    ELSE FilterLoop(row, filters, k + 1)

\* an empty filter list taken as no restriction
matchesAnyFilterEmptyAll(row, filters) ==
    IF Len(filters) = 0 THEN TRUE ELSE FilterLoop(row, filters, 1)

\* the callback of allData.filter that builds matchingPlayers
matchesAnyFilter(row, filters) ==
    IF Len(filters) = 0 THEN FALSE ELSE FilterLoop(row, filters, 1)

\* the matching players, last row first
matchingPlayersReversed(allData, filters) ==
    LET matching == SelectSeq(allData, LAMBDA row : matchesAnyFilter(row, filters))
    IN  [k \in 1..Len(matching) |-> matching[Len(matching) + 1 - k]]

matchingPlayers(allData, filters) ==
    SelectSeq(allData, LAMBDA row : matchesAnyFilter(row, filters))

\* ------------------------------------------------------------ categories
Category(id, name, type, filters, allowRepetition, priority, limit, players) ==
    [id |-> id, name |-> name, type |-> type, filters |-> filters,
     allowRepetition |-> allowRepetition, priority |-> priority,
     limit |-> limit, players |-> players]

\* the player keys of a row sequence
Keys(rows) == {JSONstringify(rows[i]) : i \in 1..Len(rows)}

\* remaining that forgets the used set
remainingAll(allData, category, globalUsedPlayers) == allData

\* remaining that excludes used players whatever allowRepetition says
remainingUnused(allData, category, globalUsedPlayers) ==
    SelectSeq(allData, LAMBDA row : JSONstringify(row) \notin globalUsedPlayers)

\* Open branch: rows not yet used, or all rows when repetition is allowed
remaining(allData, category, globalUsedPlayers) ==
    SelectSeq(allData, LAMBDA row :
        IF ~category.allowRepetition
        THEN JSONstringify(row) \notin globalUsedPlayers
        ELSE TRUE)

\* the Open limit left out
OpenLimitNone(category, rows) == rows

\* Open branch: filteredData = limit ? remaining.slice(0, limit) : remaining
OpenLimit(category, rows) ==
    IF Truthy(category.limit) THEN slice(rows, category.limit.num) ELSE rows

\* the selected players never marked
OpenMarkNone(category, filteredData, globalUsedPlayers) == globalUsedPlayers

\* the selected players marked whatever allowRepetition says
OpenMarkAlways(category, filteredData, globalUsedPlayers) ==
    globalUsedPlayers \cup Keys(filteredData)

\* Open branch: mark the selected players as used when repetition is not allowed
OpenMarkUsed(category, filteredData, globalUsedPlayers) ==
    IF ~category.allowRepetition
    THEN globalUsedPlayers \cup Keys(filteredData)
    ELSE globalUsedPlayers

\* filtered branch: matching players not used by an earlier category
availablePlayers(matching, globalUsedPlayers) ==
    SelectSeq(matching, LAMBDA row : JSONstringify(row) \notin globalUsedPlayers)

\* the filtered limit left out
FilteredLimitNone(category, rows) == rows

\* filtered branch: filteredData = limit ? availablePlayers.slice(0, limit) : availablePlayers
FilteredLimit(category, rows) ==
    IF Truthy(category.limit) THEN slice(rows, category.limit.num) ELSE rows

\* the selected players never marked
FilteredMarkNone(filteredData, globalUsedPlayers) == globalUsedPlayers

\* filtered branch: filteredData.forEach(row => globalUsedPlayers.add(...))
FilteredMarkUsed(filteredData, globalUsedPlayers) ==
    globalUsedPlayers \cup Keys(filteredData)

\* the limit applied in the allowRepetition branch too
RepeatedDataLimited(category, matching) ==
    IF Truthy(category.limit) THEN slice(matching, category.limit.num) ELSE matching

\* filtered branch with allowRepetition: filteredData = matchingPlayers
RepeatedData(category, matching) == matching

\* the result built field by field, limit forgotten
WithPlayersNoLimit(category, filteredData) ==
    [category EXCEPT !.players = filteredData, !.limit = undefined]

\* { ...category, players: filteredData }
WithPlayers(category, filteredData) == [category EXCEPT !.players = filteredData]

\* an Open category that carries filters sent through the filtered branch
MapCallbackOpenFiltered(allData, category, globalUsedPlayers) ==
    IF category.type = "Open" /\ category.filters = <<>>
    THEN LET filteredData ==
                 OpenLimit(category, remaining(allData, category, globalUsedPlayers))
         IN  [category |-> WithPlayers(category, filteredData),
              globalUsedPlayers |->
                  OpenMarkUsed(category, filteredData, globalUsedPlayers)]
    ELSE LET filteredData ==
                 FilteredLimit(category,
                     availablePlayers(matchingPlayers(allData, category.filters),
                                      globalUsedPlayers))
         IN  [category |-> WithPlayers(category, filteredData),
              globalUsedPlayers |->
                  FilteredMarkUsed(filteredData, globalUsedPlayers)]

\* The callback of categoryList.map for one category: the category it returns
\* and globalUsedPlayers as it leaves it.
MapCallback(allData, category, globalUsedPlayers) ==
    IF category.type = "Open"
    THEN LET filteredData ==
                 OpenLimit(category, remaining(allData, category, globalUsedPlayers))
         IN  [category |-> WithPlayers(category, filteredData),
              globalUsedPlayers |->
                  OpenMarkUsed(category, filteredData, globalUsedPlayers)]
    ELSE LET matching == matchingPlayers(allData, category.filters) IN
         IF category.allowRepetition
         THEN [category |-> WithPlayers(category, RepeatedData(category, matching)),
               globalUsedPlayers |-> globalUsedPlayers]
         ELSE LET filteredData ==
                      FilteredLimit(category,
                                    availablePlayers(matching, globalUsedPlayers))
              IN  [category |-> WithPlayers(category, filteredData),
                   globalUsedPlayers |->
                       FilteredMarkUsed(filteredData, globalUsedPlayers)]

RECURSIVE MapFrom(_, _, _, _)
MapFrom(allData, categoryList, i, globalUsedPlayers) ==
    IF i > Len(categoryList) THEN <<>>
    ELSE LET r == MapCallback(allData, categoryList[i], globalUsedPlayers)
         IN  <<r.category>> \o MapFrom(allData, categoryList, i + 1, r.globalUsedPlayers)

\* the map run from the last category to the first
applyFiltersBackwards(allData, categoryList) ==
    LET n == Len(categoryList)
        backwards == [i \in 1..n |-> categoryList[n + 1 - i]]
        out == MapFrom(allData, backwards, 1, {})
    IN  [i \in 1..n |-> out[n + 1 - i]]

\* applyFilters(allData, categoryList): a fresh globalUsedPlayers, then map
applyFilters(allData, categoryList) == MapFrom(allData, categoryList, 1, {})

\* -------------------------------------------------------- input domains
RECURSIVE SeqsUpTo(_, _)
SeqsUpTo(S, n) ==
    IF n = 0 THEN {<<>>}
    ELSE LET shorter == SeqsUpTo(S, n - 1)
         IN  shorter \cup {Append(s, x) : s \in {t \in shorter : Len(t) = n - 1}, x \in S}

Row(name, age) == <<Entry("name", name), Entry("age", age)>>

RowAl == Row(Str(<<"A", "l">>), Num(17))
RowBo == Row(Str(<<"B", "o">>), Num(19))

AgeLess18 == Filter("age", "less", Num(18))
AgeGreater16 == Filter("age", "greater", Str(<<"1", "6">>))
AgeGreater17 == Filter("age", "greater", Num(17))
AgeLess19 == Filter("age", "less", Num(19))
NameHasO == Filter("name", "contains", Str(<<"O">>))
NameEqualAl == Filter("name", "equal", Str(<<"a", "l">>))
NameBlank == Filter("name", "equal", Str(<<>>))
AgeBlank == Filter("age", "greater", undefined)

\* limit: unset, or a positive integer (the form's number input has min=1)
Limits == {undefined} \cup {Num(k) : k \in 1..MaxLimit}

\* a category as the form describes it, before it has an id
Def(name, type, filters, allowRepetition, limit) ==
    [name |-> name, type |-> type, filters |-> filters,
     allowRepetition |-> allowRepetition, limit |-> limit]

\* ---------------------------------------------------------------- idle
\* Each specification leaves the variables of the others at rest.
MatchIdle ==
    /\ mData = <<>>
    /\ mFilters = <<>>
    /\ mPc = "idle"
    /\ mMatching = <<>>

AllocIdle ==
    /\ aData = <<>>
    /\ aList = <<>>
    /\ aOut = <<>>
    /\ aUsed = {}
    /\ aLog = <<>>
    /\ aPrev = <<>>

PageIdle ==
    /\ tournamentData = <<>>
    /\ columns = <<>>
    /\ categories = <<>>
    /\ now = 0
    /\ reading = {}
    /\ error = "null"
    /\ lastOp = [op |-> "none", from |-> 0, to |-> 0, before |-> <<>>]
    /\ issued = {}

IngestIdle ==
    /\ iSheet = <<>>
    /\ iRows = <<>>
    /\ iPc = "idle"

\* useState of CategoryManager, and the value handleSubmit resets the form to
BlankForm ==
    [name |-> <<>>, type |-> "Custom", filters |-> <<>>,
     allowRepetition |-> FALSE, limit |-> undefined]

FormIdle ==
    /\ formData = BlankForm
    /\ editId = "null"
    /\ showForm = FALSE

\* ====================================================== SpecMatch
MatchRows ==
    {RowAl, RowBo, Row(Str(<<"a", "L">>), Str(<<"1", "7">>)), Row(Str(<<>>), Str(<<>>))}

MatchFilters ==
    {AgeLess18, AgeGreater16, AgeGreater17, AgeLess19,
     NameHasO, NameEqualAl, NameBlank, AgeBlank}

MatchInit ==
    /\ mData \in SeqsUpTo(MatchRows, MaxRows)
    /\ mFilters \in SeqsUpTo(MatchFilters, MaxFilters)
    /\ mPc = "call"
    /\ mMatching = <<>>
    /\ AllocIdle
    /\ PageIdle
    /\ IngestIdle
    /\ FormIdle

\* const matchingPlayers = allData.filter(row => ...)
MatchCall ==
    /\ mPc = "call"
    /\ mMatching' = matchingPlayers(mData, mFilters)
    /\ mPc' = "done"
    /\ UNCHANGED <<mData, mFilters, aVars, pVars, iVars, fVars>>

MatchNext == MatchCall

SpecMatch == MatchInit /\ [][MatchNext]_vars

\* ====================================================== SpecAlloc
AllocRows == {RowAl, RowBo}

AllocFilterLists == {<<AgeLess18>>, <<NameBlank, AgeGreater16>>}

AllocDefs ==
    {Def(<<"O", "p", "e", "n">>, "Open", <<>>, rep, lim) :
        rep \in BOOLEAN, lim \in Limits}
    \cup
    {Def(<<"C">>, "Custom", fl, rep, lim) :
        fl \in AllocFilterLists, rep \in BOOLEAN, lim \in Limits}

\* The stored list that a sequence of definitions becomes.  Priorities are
\* those of a list whose first category was deleted: position, counted from 1.
ListOf(defs) ==
    [i \in 1..Len(defs) |->
        Category(NatToString(i), defs[i].name, defs[i].type, defs[i].filters,
                 defs[i].allowRepetition, i, defs[i].limit, <<>>)]

AllocInit ==
    /\ aData \in SeqsUpTo(AllocRows, MaxRows)
    /\ aList \in {ListOf(defs) : defs \in SeqsUpTo(AllocDefs, MaxCats)}
    /\ aOut = <<>>
    /\ aUsed = {}
    /\ aLog = <<>>
    /\ aPrev = <<>>
    /\ MatchIdle
    /\ PageIdle
    /\ IngestIdle
    /\ FormIdle

\* map() calls the callback on the next category
MapStep(category) ==
    LET r == MapCallback(aData, category, aUsed)
    IN  /\ aOut' = Append(aOut, r.category)
        /\ aUsed' = r.globalUsedPlayers
        /\ aLog' = Append(aLog, aUsed)
        /\ UNCHANGED <<aData, aList, aPrev, mVars, pVars, iVars, fVars>>

MapOpen ==
    /\ Len(aOut) < Len(aList)
    /\ aList[Len(aOut) + 1].type = "Open"
    /\ MapStep(aList[Len(aOut) + 1])

MapFiltered ==
    /\ Len(aOut) < Len(aList)
    /\ aList[Len(aOut) + 1].type # "Open"
    /\ MapStep(aList[Len(aOut) + 1])

AllocNext == MapOpen \/ MapFiltered

SpecAlloc == AllocInit /\ [][AllocNext]_vars

\* ====================================================== SpecCalls
\* a non-Open category without filters, an Open category that carries a
\* filter, and a well-formed Custom category
CallDefs ==
    {Def(<<"M">>, "Custom", <<>>, FALSE, undefined),
     Def(<<"O">>, "Open", <<AgeLess18>>, FALSE, Num(1)),
     Def(<<"S">>, "Custom", <<AgeGreater16>>, FALSE, undefined)}

CallLists == {ListOf(defs) : defs \in SeqsUpTo(CallDefs, MaxCats)}

CallsInit ==
    /\ aData \in SeqsUpTo(AllocRows, MaxRows)
    /\ aList \in CallLists
    /\ aOut = <<>>
    /\ aUsed = {}
    /\ aLog = <<>>
    /\ aPrev = <<>>
    /\ MatchIdle
    /\ PageIdle
    /\ IngestIdle
    /\ FormIdle

\* the set of the previous call still in use
SharedUsedPlayers(previous) == previous

\* const globalUsedPlayers = new Set<string>()
NewUsedPlayers(previous) == {}

\* the first call as aPrev keeps it; between says that a call with another
\* category list has started since
FirstCall(allData, categoryList, result, between) ==
    [allData |-> allData, categoryList |-> categoryList, result |-> result,
     between |-> between]

\* applyFilters returns and a handler calls it again, on the same rows
applyFiltersAgain ==
    \E categoryList \in CallLists :
        /\ Len(aOut) = Len(aList)
        /\ aPrev' = IF aPrev = <<>>
                    THEN <<FirstCall(aData, aList, aOut, categoryList # aList)>>
                    ELSE <<FirstCall(aPrev[1].allData, aPrev[1].categoryList,
                                     aPrev[1].result,
                                     aPrev[1].between
                                         \/ categoryList # aPrev[1].categoryList)>>
        /\ aList' = categoryList
        /\ aOut' = <<>>
        /\ aLog' = <<>>
        /\ aUsed' = NewUsedPlayers(aUsed)
        /\ UNCHANGED <<aData, mVars, pVars, iVars, fVars>>

CallsNext == MapOpen \/ MapFiltered \/ applyFiltersAgain

SpecCalls == CallsInit /\ [][CallsNext]_vars

\* ====================================================== Spec (the page)
\* ------------------------------------------------------ FileUpload.handleFile
EndsWith(s, suffix) ==
    Len(s) >= Len(suffix) /\ SubSeq(s, Len(s) - Len(suffix) + 1, Len(s)) = suffix

\* file.name.match(/\.(xlsx|xls)$/)
IsExcelName(name) ==
    \/ EndsWith(name, <<".", "x", "l", "s", "x">>)
    \/ EndsWith(name, <<".", "x", "l", "s">>)

\* 10 * 1024 * 1024
MaxFileSize == 10 * 1024 * 1024

\* row[colIndex]
Cell(row, colIndex) == IF colIndex <= Len(row) THEN row[colIndex] ELSE undefined

\* cell !== null && cell !== undefined && cell !== ''
IsFilledCell(cell) ==
    ~(cell.kind = "undefined" \/ (cell.kind = "string" /\ cell.str = <<>>))

\* rowData[header] = value
SetKey(rowData, header, value) ==
    IF \E i \in 1..Len(rowData) : rowData[i][1] = header
    THEN [i \in 1..Len(rowData) |->
             IF rowData[i][1] = header THEN Entry(header, value) ELSE rowData[i]]
    ELSE Append(rowData, Entry(header, value))

\* headers.forEach((header, colIndex) => rowData[header] = row[colIndex] || '')
RECURSIVE RowDataFrom(_, _, _, _)
RowDataFrom(headers, row, colIndex, rowData) ==
    IF colIndex > Len(headers) THEN rowData
    ELSE RowDataFrom(headers, row, colIndex + 1,
             SetKey(rowData, headers[colIndex],
                    IF Truthy(Cell(row, colIndex)) THEN Cell(row, colIndex)
                    ELSE Str(<<>>)))

\* dataRows.filter(row => row.some(filled)).map(row => rowData)
processedData(jsonData) ==
    LET headers == jsonData[1]
        dataRows == Tail(jsonData)
        kept == SelectSeq(dataRows,
                    LAMBDA row : \E c \in 1..Len(row) : IsFilledCell(row[c]))
    IN  [i \in 1..Len(kept) |-> RowDataFrom(headers, kept[i], 1, <<>>)]

File(name, size, jsonData) == [name |-> name, size |-> size, jsonData |-> jsonData]

Headers == <<"name", "age">>

FileA ==
    File(<<"a", ".", "x", "l", "s", "x">>, 1,
         <<Headers,
           <<Str(<<"A", "l">>), Num(17)>>,
           <<Str(<<"B", "o">>), Num(19)>>>>)

\* a blank row between the data rows, and a row that ends before the age cell
FileB ==
    File(<<"b", ".", "x", "l", "s">>, 1,
         <<Headers,
           <<Str(<<"B", "o">>), Num(19)>>,
           <<>>,
           <<Str(<<"A", "l">>)>>>>)

FileCsv == File(<<"c", ".", "c", "s", "v">>, 1, <<Headers, <<Str(<<"A", "l">>), Num(17)>>>>)
FileBig == File(<<"d", ".", "x", "l", "s">>, MaxFileSize + 1, <<Headers>>)
FileHeaderOnly == File(<<"e", ".", "x", "l", "s", "x">>, 1, <<Headers>>)
FileBlankRows == File(<<"f", ".", "x", "l", "s">>, 1, <<Headers, <<>>, <<Str(<<>>)>>>>)

Files == {FileA, FileB, FileCsv, FileBig, FileHeaderOnly, FileBlankRows}

\* the welcome screen, the only place that renders FileUpload
FileUploadShown == Len(tournamentData) = 0

\* the tabs, which render CategoryManager and CategoryDisplay
TabsShown == Len(tournamentData) > 0

\* lastOp: the handler, and for a reorder the two positions and what the list
\* it started from held: per category, the fields applyFilters reads and the
\* players it had
Op(op, from, to, before) == [op |-> op, from |-> from, to |-> to, before |-> before]

Snapshot(list) ==
    [i \in 1..Len(list) |->
        [type |-> list[i].type, filters |-> list[i].filters,
         allowRepetition |-> list[i].allowRepetition, limit |-> list[i].limit,
         players |-> list[i].players]]

\* handleFile: the extension is refused
RejectExtension ==
    \E file \in Files :
        /\ FileUploadShown
        /\ ~IsExcelName(file.name)
        /\ error' = "Please upload a valid Excel file (.xlsx or .xls)"
        /\ lastOp' = Op("rejected", 0, 0, <<>>)
        /\ UNCHANGED <<tournamentData, columns, categories, now, reading, issued, mVars, aVars, iVars, fVars>>

\* handleFile: the size is refused
RejectSize ==
    \E file \in Files :
        /\ FileUploadShown
        /\ IsExcelName(file.name)
        /\ file.size > MaxFileSize
        /\ error' = "File size must be less than 10MB"
        /\ lastOp' = Op("rejected", 0, 0, <<>>)
        /\ UNCHANGED <<tournamentData, columns, categories, now, reading, issued, mVars, aVars, iVars, fVars>>

\* handleFile up to `await file.arrayBuffer()`
StartReading ==
    \E file \in Files :
        /\ FileUploadShown
        /\ IsExcelName(file.name)
        /\ file.size <= MaxFileSize
        /\ file \notin reading
        /\ Cardinality(reading) < MaxReading
        /\ reading' = reading \cup {file}
        /\ error' = "null"
        /\ lastOp' = Op("reading", 0, 0, <<>>)
        /\ UNCHANGED <<tournamentData, columns, categories, now, issued, mVars, aVars, iVars, fVars>>

\* the sheet handed to onDataUpload before it is checked
RejectSheetStores ==
    \E file \in reading :
        /\ ~(Len(file.jsonData) >= 2 /\ Len(processedData(file.jsonData)) > 0)
        /\ tournamentData' = processedData(file.jsonData)
        /\ columns' = file.jsonData[1]
        /\ error' = "No valid data found in the Excel file"
        /\ reading' = reading \ {file}
        /\ lastOp' = Op("rejected", 0, 0, <<>>)
        /\ UNCHANGED <<categories, now, issued, mVars, aVars, iVars, fVars>>

\* handleFile after the await: the sheet is refused (a throw, caught)
RejectSheet ==
    \E file \in reading :
        /\ \/ /\ Len(file.jsonData) < 2
              /\ error' = "Excel file must contain at least a header row and one data row"
           \/ /\ Len(file.jsonData) >= 2
              /\ Len(processedData(file.jsonData)) = 0
              /\ error' = "No valid data found in the Excel file"
        /\ reading' = reading \ {file}
        /\ lastOp' = Op("rejected", 0, 0, <<>>)
        /\ UNCHANGED <<tournamentData, columns, categories, now, issued, mVars, aVars, iVars, fVars>>

\* the sheet passes both checks of handleFile
IsAccepted(file) ==
    Len(file.jsonData) >= 2 /\ Len(processedData(file.jsonData)) > 0

\* handleFile after the await: onDataUpload(processedData, headers), which is
\* handleDataUpload: setTournamentData(data); setColumns(cols).  The tabs
\* replace the welcome screen and FileUpload is unmounted: a pending read
\* that will end in setError can change nothing any more and is forgotten.
handleDataUpload ==
    \E file \in reading :
        /\ IsAccepted(file)
        /\ tournamentData' = processedData(file.jsonData)
        /\ columns' = file.jsonData[1]
        /\ reading' = {f \in reading \ {file} : IsAccepted(f)}
        /\ error' = "null"
        /\ lastOp' = Op("upload", 0, 0, <<>>)
        /\ UNCHANGED <<categories, now, issued, mVars, aVars, iVars, fVars>>

\* ------------------------------------------------------ category handlers
PageDefs ==
    {Def(<<"F">>, "U18 Girl", <<NameBlank, AgeGreater16>>, FALSE, Num(1)),
     Def(<<"O">>, "Open", <<>>, TRUE, undefined),
     Def(<<"S">>, "Custom", <<AgeGreater16>>, FALSE, undefined)}

Ids == {NatToString(t) : t \in 0..MaxClock}

\* the ids the edit and delete buttons of the category cards can pass
StoredIds == {categories[i].id : i \in 1..Len(categories)}

\* the handler of the first render called again: categories is the empty list
\* its closure holds
AddedCategoriesStale(categoryData, t) ==
    LET newCategory ==
            Category(NatToString(t), categoryData.name, categoryData.type,
                     categoryData.filters, categoryData.allowRepetition,
                     0, categoryData.limit, <<>>)
    IN  applyFilters(tournamentData, <<newCategory>>)

\* handleAddCategory: the list handed to setCategories
AddedCategories(categoryData, t) ==
    LET newCategory ==
            Category(NatToString(t), categoryData.name, categoryData.type,
                     categoryData.filters, categoryData.allowRepetition,
                     Len(categories), categoryData.limit, <<>>)
        updatedCategories == Append(categories, newCategory)
    IN  applyFilters(tournamentData, updatedCategories)

\* { ...cat, ...updates }
Merged(cat, updates) ==
    [cat EXCEPT !.name = updates.name, !.type = updates.type,
                !.filters = updates.filters,
                !.allowRepetition = updates.allowRepetition,
                !.limit = updates.limit]

\* only the edited category allocated again, the others kept as stored
UpdatedCategoriesLocal(id, updates) ==
    [i \in 1..Len(categories) |->
        IF categories[i].id = id
        THEN applyFilters(tournamentData, <<Merged(categories[i], updates)>>)[1]
        ELSE categories[i]]

\* handleUpdateCategory: the list handed to setCategories
UpdatedCategories(id, updates) ==
    LET updatedCategories ==
            [i \in 1..Len(categories) |->
                IF categories[i].id = id THEN Merged(categories[i], updates)
                ELSE categories[i]]
    IN  applyFilters(tournamentData, updatedCategories)

\* the category cut out with splice(findIndex(id), 1): with no such id the
\* index is -1 and the last category goes
RemainingCategoriesSpliced(id) ==
    LET index == IF \E i \in 1..Len(categories) : categories[i].id = id
                 THEN CHOOSE i \in 1..Len(categories) :
                          categories[i].id = id /\ \A j \in 1..(i - 1) : categories[j].id # id
                 ELSE Len(categories)
        filteredCategories ==
            SubSeq(categories, 1, index - 1) \o SubSeq(categories, index + 1, Len(categories))
    IN  applyFilters(tournamentData, filteredCategories)

\* handleDeleteCategory: the list handed to setCategories
RemainingCategories(id) ==
    LET filteredCategories == SelectSeq(categories, LAMBDA cat : cat.id # id)
    IN  applyFilters(tournamentData, filteredCategories)

\* categories.findIndex(cat => cat.id === id), counted from 1; 0 for -1
findIndex(list, id) ==
    IF \E i \in 1..Len(list) : list[i].id = id
    THEN CHOOSE i \in 1..Len(list) :
             list[i].id = id /\ \A j \in 1..(i - 1) : list[j].id # id
    ELSE 0

\* arrayMove(array, from, to) of @dnd-kit/sortable, positions counted from 1
arrayMove(array, from, to) ==
    LET without == SubSeq(array, 1, from - 1) \o SubSeq(array, from + 1, Len(array))
    IN  SubSeq(without, 1, to - 1) \o <<array[from]>> \o SubSeq(without, to, Len(without))

\* arrayMove(categories, oldIndex, newIndex).map((cat, index) => ({...cat, priority: index}))
Reordered(oldIndex, newIndex) ==
    LET moved == arrayMove(categories, oldIndex, newIndex)
    IN  [i \in 1..Len(moved) |-> [moved[i] EXCEPT !.priority = i - 1]]

\* the new order stored as it comes, the filters not run again
handleReorderCategoriesStale(reordered) == reordered

\* handleReorderCategories: the list handed to setCategories
handleReorderCategories(reordered) == applyFilters(tournamentData, reordered)

handleAddCategory ==
    \E categoryData \in PageDefs : \E t \in now..MaxClock :
        /\ TabsShown
        /\ Len(categories) < MaxStored
        /\ now' = t
        /\ categories' = AddedCategories(categoryData, t)
        /\ lastOp' = Op("add", 0, 0, <<>>)
        /\ issued' = (IF t = now THEN issued ELSE {}) \cup {NatToString(t)}
        /\ UNCHANGED <<tournamentData, columns, reading, error, mVars, aVars, iVars, fVars>>

handleUpdateCategory ==
    \E id \in StoredIds : \E updates \in PageDefs :
        /\ TabsShown
        /\ categories' = UpdatedCategories(id, updates)
        /\ lastOp' = Op("update", 0, 0, <<>>)
        /\ UNCHANGED <<tournamentData, columns, now, reading, error, issued, mVars, aVars, iVars, fVars>>

handleDeleteCategory ==
    \E id \in StoredIds :
        /\ TabsShown
        /\ categories' = RemainingCategories(id)
        /\ lastOp' = Op("delete", 0, 0, <<>>)
        /\ UNCHANGED <<tournamentData, columns, now, reading, error, issued, mVars, aVars, iVars, fVars>>

\* CategoryManager.handleDragEnd, which calls onReorderCategories
ManagerDragEnd ==
    \E active \in 1..Len(categories) : \E over \in 1..Len(categories) :
        /\ TabsShown
        /\ categories[active].id # categories[over].id
        /\ LET oldIndex == findIndex(categories, categories[active].id)
               newIndex == findIndex(categories, categories[over].id)
           IN  /\ categories' = handleReorderCategories(Reordered(oldIndex, newIndex))
               /\ lastOp' = Op("reorder", oldIndex, newIndex, Snapshot(categories))
        /\ UNCHANGED <<tournamentData, columns, now, reading, error, issued, mVars, aVars, iVars, fVars>>

\* Index.handleDragEnd, on the overview tab
handleDragEnd ==
    \E active \in 1..Len(categories) : \E over \in 1..Len(categories) :
        /\ TabsShown
        /\ categories[active].id # categories[over].id
        /\ LET oldIndex == findIndex(categories, categories[active].id)
               newIndex == findIndex(categories, categories[over].id)
               reorderedCategories == Reordered(oldIndex, newIndex)
           IN  /\ categories' = applyFilters(tournamentData, reorderedCategories)
               /\ lastOp' = Op("drag", oldIndex, newIndex, Snapshot(categories))
        /\ UNCHANGED <<tournamentData, columns, now, reading, error, issued, mVars, aVars, iVars, fVars>>

Init ==
    /\ PageIdle
    /\ IngestIdle
    /\ FormIdle
    /\ MatchIdle
    /\ AllocIdle

Next ==
    \/ RejectExtension
    \/ RejectSize
    \/ StartReading
    \/ RejectSheet
    \/ handleDataUpload
    \/ handleAddCategory
    \/ handleUpdateCategory
    \/ handleDeleteCategory
    \/ ManagerDragEnd
    \/ handleDragEnd

Spec == Init /\ [][Next]_vars

\* ======================================================= SpecOrder
\* applyFilters on the lists whose order matters: Open and filtered categories,
\* with and without repetition, an Open category with and without a limit
OrderDefs ==
    {Def(<<"O", "p", "e", "n">>, "Open", <<>>, rep, lim) :
        rep \in BOOLEAN, lim \in {undefined, Num(1)}}
    \cup
    {Def(<<"C">>, "Custom", fl, rep, undefined) :
        fl \in AllocFilterLists, rep \in BOOLEAN}

OrderInit ==
    /\ aData \in SeqsUpTo(AllocRows, MaxRows)
    /\ aList \in {ListOf(defs) : defs \in SeqsUpTo(OrderDefs, MaxCats)}
    /\ aOut = <<>>
    /\ aUsed = {}
    /\ aLog = <<>>
    /\ aPrev = <<>>
    /\ MatchIdle
    /\ PageIdle
    /\ IngestIdle
    /\ FormIdle

OrderNext == MapOpen \/ MapFiltered

SpecOrder == OrderInit /\ [][OrderNext]_vars

\* ======================================================== SpecForm
\* CategoryManager: the category form and the cards of the stored categories,
\* on a page whose sheet is loaded.
predefinedCategories ==
    {[type |-> "Open", name |-> <<"O", "p", "e", "n", " ", "C", "a", "t", "e", "g", "o", "r", "y">>],
     [type |-> "U18 Boy", name |-> <<"U", "n", "d", "e", "r", " ", "1", "8", " ", "B", "o", "y", "s">>],
     [type |-> "U18 Girl", name |-> <<"U", "n", "d", "e", "r", " ", "1", "8", " ", "G", "i", "r", "l", "s">>]}

\* the buttons the user clicks: Open, and one of the two that are not Open
QuickButtons == {category \in predefinedCategories : category.type \in {"Open", "U18 Boy"}}

\* what the user leaves in the name input: the name cleared
FormNames == {<<>>}

\* a sheet of one column
FormColumns == <<"age">>
FormRows == <<<<Entry("age", Num(17))>>, <<Entry("age", Num(19))>>>>

\* the filter the Add Filter button appends
BlankFilter == Filter("", "equal", Str(<<>>))

FormInit ==
    /\ tournamentData = FormRows
    /\ columns = FormColumns
    /\ categories = <<>>
    /\ now = 0
    /\ reading = {}
    /\ error = "null"
    /\ lastOp = Op("upload", 0, 0, <<>>)
    /\ issued = {}
    /\ FormIdle
    /\ MatchIdle
    /\ AllocIdle
    /\ IngestIdle

\* the Create Custom Category button
ToggleForm ==
    /\ TabsShown
    /\ showForm' = ~showForm
    /\ UNCHANGED <<formData, editId, pVars, mVars, aVars, iVars>>

handlePredefinedCategory ==
    \E category \in QuickButtons :
        /\ TabsShown
        /\ formData' = [formData EXCEPT !.name = category.name, !.type = category.type]
        /\ editId' = "null"
        /\ showForm' = TRUE
        /\ UNCHANGED <<pVars, mVars, aVars, iVars>>

\* the name input
ChangeName ==
    \E name \in FormNames :
        /\ TabsShown
        /\ showForm
        /\ formData' = [formData EXCEPT !.name = name]
        /\ UNCHANGED <<editId, showForm, pVars, mVars, aVars, iVars>>

\* the Add Filter button
AddFilter ==
    /\ TabsShown
    /\ showForm
    /\ Len(formData.filters) < MaxFormFilters
    /\ formData' = [formData EXCEPT !.filters = Append(@, BlankFilter)]
    /\ UNCHANGED <<editId, showForm, pVars, mVars, aVars, iVars>>

\* the column Select of the filter at idx
ChangeFilterColumn ==
    \E idx \in 1..Len(formData.filters) : \E c \in 1..Len(columns) :
        /\ TabsShown
        /\ showForm
        /\ formData' = [formData EXCEPT !.filters[idx].filterColumn = columns[c]]
        /\ UNCHANGED <<editId, showForm, pVars, mVars, aVars, iVars>>

\* the Remove button of the filter at idx
RemoveFilter ==
    \E idx \in 1..Len(formData.filters) :
        /\ TabsShown
        /\ showForm
        /\ formData' = [formData EXCEPT !.filters =
                            SubSeq(@, 1, idx - 1) \o SubSeq(@, idx + 1, Len(@))]
        /\ UNCHANGED <<editId, showForm, pVars, mVars, aVars, iVars>>

\* the Cancel button
CancelForm ==
    /\ TabsShown
    /\ showForm
    /\ showForm' = FALSE
    /\ editId' = "null"
    /\ UNCHANGED <<formData, pVars, mVars, aVars, iVars>>

\* handleSubmit returns before it calls anything: only the name is looked at
SubmitReturnsNameOnly == formData.name = <<>>

\* handleSubmit returns before it calls anything
SubmitReturns ==
    \/ formData.name = <<>>
    \/ (formData.type # "Open" /\ Len(formData.filters) = 0)
    \/ \E k \in 1..Len(formData.filters) : formData.filters[k].filterColumn = ""

\* what the form and the page hold
FormState(list, clock, data, id, shown) ==
    [categories |-> list, now |-> clock, formData |-> data, editId |-> id,
     showForm |-> shown]

\* handleSubmit: what the form and the page hold after it.  With an editId
\* onUpdateCategory is called, with none onAddCategory, and then the form is
\* reset; the clock has moved on when the next category is created.
handleSubmit ==
    IF SubmitReturns
    THEN FormState(categories, now, formData, editId, showForm)
    ELSE IF editId # "null"
    THEN FormState(UpdatedCategories(editId, formData), now, BlankForm, "null", FALSE)
    ELSE FormState(AddedCategories(formData, now), now + 1, BlankForm, "null", FALSE)

\* the Create Category / Save Changes button
Submit ==
    /\ TabsShown
    /\ showForm
    /\ categories' = handleSubmit.categories
    /\ now' = handleSubmit.now
    /\ formData' = handleSubmit.formData
    /\ editId' = handleSubmit.editId
    /\ showForm' = handleSubmit.showForm
    /\ UNCHANGED <<tournamentData, columns, reading, error, lastOp, issued, mVars, aVars, iVars>>

\* the checks refuse the form
SubmitRefused ==
    /\ SubmitReturns
    /\ Submit

\* a new category
SubmitAdd ==
    /\ ~SubmitReturns
    /\ editId = "null"
    /\ now <= MaxClock
    /\ Len(categories) < MaxStored
    /\ Submit

\* the category being edited
SubmitUpdate ==
    /\ ~SubmitReturns
    /\ editId # "null"
    /\ Submit

\* the Edit button of a card: the form prefilled from the category
onEdit ==
    \E i \in 1..Len(categories) :
        /\ TabsShown
        /\ formData' = Def(categories[i].name, categories[i].type, categories[i].filters,
                           categories[i].allowRepetition, categories[i].limit)
        /\ editId' = categories[i].id
        /\ showForm' = TRUE
        /\ UNCHANGED <<pVars, mVars, aVars, iVars>>

\* the Remove button of a card: onDeleteCategory
onDelete ==
    \E id \in StoredIds :
        /\ TabsShown
        /\ categories' = RemainingCategories(id)
        /\ UNCHANGED <<tournamentData, columns, now, reading, error, lastOp, issued,
                       mVars, aVars, iVars, fVars>>

\* CategoryManager.handleDragEnd: onReorderCategories(reordered)
FormDragEnd ==
    \E active \in 1..Len(categories) : \E over \in 1..Len(categories) :
        /\ TabsShown
        /\ categories[active].id # categories[over].id
        /\ LET oldIndex == findIndex(categories, categories[active].id)
               newIndex == findIndex(categories, categories[over].id)
           IN  categories' = handleReorderCategories(Reordered(oldIndex, newIndex))
        /\ UNCHANGED <<tournamentData, columns, now, reading, error, lastOp, issued,
                       mVars, aVars, iVars, fVars>>

FormNext ==
    \/ ToggleForm
    \/ handlePredefinedCategory
    \/ ChangeName
    \/ AddFilter
    \/ ChangeFilterColumn
    \/ RemoveFilter
    \/ CancelForm
    \/ SubmitRefused
    \/ SubmitAdd
    \/ SubmitUpdate
    \/ onEdit
    \/ onDelete
    \/ FormDragEnd

SpecForm == FormInit /\ [][FormNext]_vars

\* ======================================================= SpecFrame
\* handleDeleteCategory and handleUpdateCategory called with any id the clock
\* can have issued, stored or not, on a page whose sheet is loaded.  lastOp.from
\* is the position the id is found at, 0 when it is not stored.
FrameInit ==
    /\ tournamentData = <<RowAl, RowBo>>
    /\ columns = Headers
    /\ categories = <<>>
    /\ now = 0
    /\ reading = {}
    /\ error = "null"
    /\ lastOp = Op("upload", 0, 0, <<>>)
    /\ issued = {}
    /\ FormIdle
    /\ MatchIdle
    /\ AllocIdle
    /\ IngestIdle

deleteCategory ==
    \E id \in Ids :
        /\ TabsShown
        /\ categories' = RemainingCategories(id)
        /\ lastOp' = Op("delete", findIndex(categories, id), 0, <<>>)
        /\ UNCHANGED <<tournamentData, columns, now, reading, error, issued, mVars, aVars, iVars, fVars>>

updateCategory ==
    \E id \in Ids : \E updates \in PageDefs :
        /\ TabsShown
        /\ categories' = UpdatedCategories(id, updates)
        /\ lastOp' = Op("update", findIndex(categories, id), 0, <<>>)
        /\ UNCHANGED <<tournamentData, columns, now, reading, error, issued, mVars, aVars, iVars, fVars>>

FrameNext == handleAddCategory \/ deleteCategory \/ updateCategory

SpecFrame == FrameInit /\ [][FrameNext]_vars

\* ====================================================== SpecIngest
\* what sheet_to_json({header: 1}) gives for a cell: text, a number, or
\* nothing (a hole in the row's array)
IngestCells == {Str(<<"A", "l">>), Num(17), Num(0), Str(<<>>), undefined}

\* a data row holds at most as many cells as the header has names
IngestRows == SeqsUpTo(IngestCells, Len(Headers))

IngestInit ==
    /\ iSheet \in {<<Headers>> \o dataRows : dataRows \in SeqsUpTo(IngestRows, MaxRows)}
    /\ iRows = <<>>
    /\ iPc = "read"
    /\ MatchIdle
    /\ AllocIdle
    /\ PageIdle
    /\ FormIdle

\* jsonData.length < 2: throw
IngestShort ==
    /\ iPc = "read"
    /\ Len(iSheet) < 2
    /\ iPc' = "rejected"
    /\ UNCHANGED <<iSheet, iRows, mVars, aVars, pVars, fVars>>

\* processedData.length === 0: throw
IngestEmpty ==
    /\ iPc = "read"
    /\ Len(iSheet) >= 2
    /\ Len(processedData(iSheet)) = 0
    /\ iRows' = processedData(iSheet)
    /\ iPc' = "rejected"
    /\ UNCHANGED <<iSheet, mVars, aVars, pVars, fVars>>

\* onDataUpload(processedData, headers)
IngestUpload ==
    /\ iPc = "read"
    /\ Len(iSheet) >= 2
    /\ Len(processedData(iSheet)) > 0
    /\ iRows' = processedData(iSheet)
    /\ iPc' = "uploaded"
    /\ UNCHANGED <<iSheet, mVars, aVars, pVars, fVars>>

IngestNext == IngestShort \/ IngestEmpty \/ IngestUpload

SpecIngest == IngestInit /\ [][IngestNext]_vars

\* ============================================== properties of SpecMatch
Range(s) == {s[i] : i \in 1..Len(s)}

\* at least one filter with a non-empty filterValue evaluates true on the row
SomeFilterHolds(row, filters) ==
    \E k \in 1..Len(filters) :
        /\ ~IsEmptyFilterValue(filters[k].filterValue)
        /\ currentFilterMatches(filters[k], row)

AllWildcards(filters) ==
    \A k \in 1..Len(filters) : IsEmptyFilterValue(filters[k].filterValue)

\* C4: for a non-Open category a row is in matchingPlayers iff at least one
\* filter with a non-empty filterValue is true on it (OR across filters);
\* filters that are all wildcards match no row.
C4_OrAcrossFilters ==
    mPc = "done" =>
        /\ mMatching = SelectSeq(mData, LAMBDA row : SomeFilterHolds(row, mFilters))
        /\ (AllWildcards(mFilters) => mMatching = <<>>)

\* a row kept by its second filter though its first is false, and a list of
\* wildcards only that matched nothing
C4_Witness ==
    /\ mPc = "done"
    /\ Len(mData) = 2
    /\ \/ /\ Len(mFilters) = 2
          /\ ~IsEmptyFilterValue(mFilters[1].filterValue)
          /\ ~currentFilterMatches(mFilters[1], mData[1])
          /\ currentFilterMatches(mFilters[2], mData[1])
          /\ ~SomeFilterHolds(mData[2], mFilters)
          /\ mMatching = <<mData[1]>>
       \/ /\ Len(mFilters) = 2
          /\ AllWildcards(mFilters)
          /\ mMatching = <<>>

\* ============================================== properties of SpecAlloc
Processed == 1..Len(aOut)

\* the category matches the row: Open takes any row, a filtered category
\* needs a non-wildcard filter that is true
Matched(category, row) ==
    category.type = "Open" \/ SomeFilterHolds(row, category.filters)

SameDefinition(c, d) ==
    /\ c.id = d.id
    /\ c.name = d.name
    /\ c.type = d.type
    /\ c.filters = d.filters
    /\ c.allowRepetition = d.allowRepetition
    /\ c.priority = d.priority
    /\ c.limit = d.limit

\* map() has gone through the whole list
Returned == Len(aOut) = Len(aList)

\* C1: the result has the length and order of the input, each category with
\* its definition unchanged and only players replaced; the empty list gives
\* the empty list.
C1_SameListOnlyPlayers ==
    LET out == applyFilters(aData, aList)
    IN  /\ Len(out) = Len(aList)
        /\ \A i \in 1..Len(out) : SameDefinition(out[i], aList[i])
        /\ Len(aOut) <= Len(aList)
        /\ \A i \in Processed : aOut[i] = out[i]
        /\ (aList = <<>> => out = <<>>)

C1_Witness ==
    /\ Returned
    /\ Len(aOut) = MaxCats
    /\ \E i \in Processed : aOut[i].limit # undefined /\ aOut[i].players # <<>>

\* C2 as stated: with both categories non-repeating, a row that the filters
\* of the first one match is never among the players of the second.
C2_MatchedNeverInLater ==
    \A i \in Processed : \A j \in Processed :
        (/\ i < j
         /\ aList[i].type # "Open" /\ aList[j].type # "Open"
         /\ ~aList[i].allowRepetition /\ ~aList[j].allowRepetition) =>
            \A p \in 1..Len(aData) :
                SomeFilterHolds(aData[p], aList[i].filters)
                    => aData[p] \notin Range(aOut[j].players)

\* C2, amended: with both categories non-repeating, a row selected into the
\* players of the first is never among the players of the second, also when
\* it matches the second one's filters.
C2_SelectedNeverInLater ==
    \A i \in Processed : \A j \in Processed :
        (i < j /\ ~aList[i].allowRepetition /\ ~aList[j].allowRepetition) =>
            \A p \in 1..Len(aData) :
                aData[p] \in Range(aOut[i].players) =>
                    aData[p] \notin Range(aOut[j].players)

C2_Witness ==
    /\ Len(aOut) = 2
    /\ aList[1].type # "Open" /\ aList[2].type # "Open"
    /\ ~aList[1].allowRepetition /\ ~aList[2].allowRepetition
    /\ \E p \in 1..Len(aData) :
        /\ aData[p] \in Range(aOut[1].players)
        /\ Matched(aList[2], aData[p])
        /\ aData[p] \notin Range(aOut[2].players)

\* the two rows hold the same value in every column
SameValues(r1, r2) ==
    /\ {r1[k][1] : k \in 1..Len(r1)} = {r2[k][1] : k \in 1..Len(r2)}
    /\ \A k \in 1..Len(r1) : Get(r1, r1[k][1]) = Get(r2, r1[k][1])

\* C3: once a row is selected into a non-repeating category, no row with the
\* same values in every column is selected into a later non-repeating
\* category, Open or filtered.
C3_SamePlayerOnce ==
    \A i \in Processed : \A j \in Processed :
        (i < j /\ ~aList[i].allowRepetition /\ ~aList[j].allowRepetition) =>
            \A r1 \in Range(aOut[i].players) : \A r2 \in Range(aOut[j].players) :
                ~SameValues(r1, r2)

\* two physical rows with the same values: the first category took one of
\* them, the later Open category is refused the other
C3_Witness ==
    /\ Len(aOut) = 2
    /\ Len(aData) = 2 /\ SameValues(aData[1], aData[2])
    /\ ~aList[1].allowRepetition /\ ~aList[2].allowRepetition
    /\ aList[2].type = "Open"
    /\ aOut[1].players = <<aData[1]>>
    /\ aOut[2].players = <<>>

\* C5: an Open category with no limit and allowRepetition gets all rows in
\* their order, wherever it stands and whatever was selected before it.
C5_OpenRepeatingGetsAll ==
    \A i \in Processed :
        (aList[i].type = "Open" /\ aList[i].allowRepetition /\ aList[i].limit = undefined)
            => aOut[i].players = aData

C5_Witness ==
    /\ Len(aOut) = 2
    /\ aList[2].type = "Open" /\ aList[2].allowRepetition /\ aList[2].limit = undefined
    /\ ~aList[1].allowRepetition
    /\ Len(aOut[1].players) = 2
    /\ aOut[2].players = aData

\* the repetition-filtered pool of the category at position i
Pool(i) ==
    IF aList[i].allowRepetition THEN aData
    ELSE SelectSeq(aData, LAMBDA row : JSONstringify(row) \notin aLog[i])

\* the first k rows of s, as far as s has them
FirstRows(s, k) == [n \in 1..Min(k, Len(s)) |-> s[n]]

OpenWithLimit(i) ==
    /\ aList[i].type = "Open"
    /\ aList[i].limit # undefined
    /\ aList[i].limit.num <= Len(aData)

\* C6 as stated: an Open category with limit k <= |R| has exactly k players,
\* the first k rows of its pool.
C6_ExactlyLimit ==
    \A i \in Processed :
        OpenWithLimit(i) =>
            /\ Len(aOut[i].players) = aList[i].limit.num
            /\ aOut[i].players = FirstRows(Pool(i), aList[i].limit.num)

\* C6, amended: an Open category with limit k <= |R| gets the first k rows of
\* its pool, or the whole pool when the pool has fewer than k rows; it has
\* exactly k players when the pool has at least k rows.
C6_FirstRowsOfPool ==
    \A i \in Processed :
        OpenWithLimit(i) =>
            /\ aOut[i].players = FirstRows(Pool(i), aList[i].limit.num)
            /\ Len(aOut[i].players) = Min(aList[i].limit.num, Len(Pool(i)))
            /\ (Len(Pool(i)) >= aList[i].limit.num =>
                    Len(aOut[i].players) = aList[i].limit.num)

\* an Open category with a limit behind a category that has shrunk its pool:
\* the pool still holds limit rows and the category gets exactly that many
C6_Witness ==
    /\ Len(aOut) = 2
    /\ OpenWithLimit(2)
    /\ ~aList[2].allowRepetition
    /\ Len(Pool(2)) < Len(aData)
    /\ Len(Pool(2)) >= aList[2].limit.num
    /\ Len(aOut[2].players) = aList[2].limit.num

\* the matching rows of category i that no earlier category has used
Available(i) ==
    SelectSeq(aData, LAMBDA row :
        /\ SomeFilterHolds(row, aList[i].filters)
        /\ JSONstringify(row) \notin aLog[i])

\* globalUsedPlayers as category i left it
UsedAfter(i) == IF i = Len(aOut) THEN aUsed ELSE aLog[i + 1]

C8_RepeatingIgnoresLimit ==
    \A i \in Processed :
        (aList[i].type # "Open" /\ aList[i].allowRepetition) =>
            /\ aOut[i].players =
                   SelectSeq(aData, LAMBDA row : SomeFilterHolds(row, aList[i].filters))
            /\ UsedAfter(i) = aLog[i]

\* more players than the limit, one of them already used by an earlier category
C8_Witness ==
    /\ Len(aOut) = 2
    /\ aList[2].type # "Open" /\ aList[2].allowRepetition
    /\ aList[2].limit # undefined
    /\ Len(aOut[2].players) > aList[2].limit.num
    /\ \E row \in Range(aOut[2].players) : JSONstringify(row) \in aLog[2]

\* ================================================== properties of Spec
CategoryOps == {"add", "update", "delete", "reorder", "drag"}
ReorderOps == {"reorder", "drag"}

\* the last handler was a reorder that moved the category at position j of
\* the list it started from to position 0
MovedToFront(j) ==
    /\ lastOp.op \in ReorderOps
    /\ lastOp.from = j
    /\ lastOp.to = 1

\* before the reorder, categories i < j were both non-repeating, both
\* matched the row, and the first of them held it
SharedRowHeldByFirst(i, j, row) ==
    /\ i < j
    /\ j <= Len(lastOp.before)
    /\ ~lastOp.before[i].allowRepetition
    /\ ~lastOp.before[j].allowRepetition
    /\ Matched(lastOp.before[i], row)
    /\ Matched(lastOp.before[j], row)
    /\ row \in Range(lastOp.before[i].players)

\* after the reorder the moved category holds the row and the formerly
\* first one, now at position i + 1, does not
Flipped(i, row) ==
    /\ row \in Range(categories[1].players)
    /\ row \notin Range(categories[i + 1].players)

\* C9 as stated: moving the second of two non-repeating categories that
\* match the same row to position 0 gives it the row and takes the row from
\* the formerly first one.
C9_ReorderFlips ==
    \A i \in 1..Len(lastOp.before) : \A j \in 1..Len(lastOp.before) :
        \A row \in Range(tournamentData) :
            (MovedToFront(j) /\ SharedRowHeldByFirst(i, j, row)) => Flipped(i, row)

\* the row is not beyond the category's limit among the rows it matches
WithinLimit(category, row) ==
    \/ category.limit = undefined
    \/ row \in Range(FirstRows(SelectSeq(tournamentData,
                                         LAMBDA r : Matched(category, r)),
                               category.limit.num))

\* C9, amended: the same, provided the row is among the first limit rows the
\* moved category matches when that category has a limit.
C9_ReorderFlipsWithinLimit ==
    \A i \in 1..Len(lastOp.before) : \A j \in 1..Len(lastOp.before) :
        \A row \in Range(tournamentData) :
            (/\ MovedToFront(j)
             /\ SharedRowHeldByFirst(i, j, row)
             /\ WithinLimit(lastOp.before[j], row)) => Flipped(i, row)

\* a filtered category dragged above the filtered category that held the row
C9_Witness ==
    /\ lastOp.op = "reorder"
    /\ MovedToFront(2)
    /\ lastOp.before[1].type # "Open" /\ lastOp.before[2].type # "Open"
    /\ lastOp.before[1].filters # lastOp.before[2].filters
    /\ \E row \in Range(tournamentData) :
        /\ SharedRowHeldByFirst(1, 2, row)
        /\ WithinLimit(lastOp.before[2], row)
        /\ row \notin Range(lastOp.before[2].players)
        /\ Flipped(1, row)

\* C10: after add, update, delete and reorder the stored list is the
\* allocation of the current rows over the whole stored list: the players of
\* every category are the ones applyFilters computes, not only those of the
\* category the handler changed.
C10_StoredIsAllocated ==
    lastOp.op \in CategoryOps =>
        /\ categories = applyFilters(tournamentData, categories)
        /\ \A i \in 1..Len(categories) :
               categories[i].players =
                   MapCallback(tournamentData, categories[i],
                               UNION {Keys(categories[k].players) :
                                        k \in {n \in 1..(i - 1) :
                                                 ~categories[n].allowRepetition}}
                              ).category.players

\* after an update, a repeating category shares a row with the non-repeating
\* category behind it
C10_Witness ==
    /\ lastOp.op = "update"
    /\ Len(categories) = 2
    /\ categories[1].id # categories[2].id
    /\ categories[1].allowRepetition
    /\ ~categories[2].allowRepetition
    /\ \E row \in Range(categories[1].players) : row \in Range(categories[2].players)

\* ================================================== properties of Spec, II
\* C11: every stored category's priority equals its index in the stored list
\* (counted from 0), so the priorities are pairwise distinct and run 0..n-1.
C11_PriorityIsIndex ==
    \A i \in 1..Len(categories) : categories[i].priority = i - 1

\* the ids of the stored categories are pairwise distinct
DistinctIds ==
    \A i \in 1..Len(categories) : \A j \in 1..Len(categories) :
        i # j => categories[i].id # categories[j].id

\* the step is a handleAddCategory whose new category has an id given before
ReusesId ==
    /\ lastOp'.op = "add"
    /\ categories'[Len(categories')].id \in issued

\* C12: the ids of the stored categories are pairwise distinct, and an id
\* given to a category at creation is never given to a category created
\* later, also after the first one was deleted.
C12_IdsNeverReused == []DistinctIds /\ [][~ReusesId]_vars

\* ============================================== properties of SpecMatch, II
\* the value is a number, or text that writes one: an optional sign and
\* decimal digits, blanks around it aside
IsNumeric(v) ==
    \/ v.kind = "number"
    \/ /\ v.kind = "string"
       /\ LET t == trim(v.str)
          IN  \/ AllDigits(t)
              \/ t # <<>> /\ Head(t) \in {"-", "+"} /\ AllDigits(Tail(t))

IsComparison(f) == f.filterType \in {"greater", "less"}

\* the filter is a greater or less whose row value or filter value is not numeric
NonNumericOn(f, row) ==
    /\ IsComparison(f)
    /\ ~IsNumeric(Get(row, f.filterColumn)) \/ ~IsNumeric(f.filterValue)

\* C13: a greater or less filter on a row value that is not a number (text,
\* the empty string of a missing cell, an absent column), or with a filter
\* value that is not numeric, is false: a row on which every filter of the
\* list is such a comparison is not matched.
C13_NonNumericIsFalse ==
    mPc = "done" =>
        \A i \in 1..Len(mData) :
            (/\ mFilters # <<>>
             /\ \A k \in 1..Len(mFilters) : NonNumericOn(mFilters[k], mData[i]))
            => mData[i] \notin Range(mMatching)

\* two characters that are the same letter, case aside
SameLetter(c, d) ==
    \/ c = d
    \/ \E i \in 1..Len(UpperCase) : {c, d} = {UpperCase[i], LowerCase[i]}

EqualIgnoringCase(a, b) ==
    /\ Len(a) = Len(b)
    /\ \A i \in 1..Len(a) : SameLetter(a[i], b[i])

ContainsIgnoringCase(s, sub) ==
    \E i \in 0..(Len(s) - Len(sub)) :
        EqualIgnoringCase(SubSeq(s, i + 1, i + Len(sub)), sub)

\* what the filter is to mean on the row: equal and contains compare the two
\* values as text, case aside
HoldsIgnoringCase(f, row) ==
    LET rowText == String(Get(row, f.filterColumn))
        filterText == String(f.filterValue)
    IN  CASE f.filterType = "equal" -> EqualIgnoringCase(rowText, filterText)
          [] f.filterType = "contains" -> ContainsIgnoringCase(rowText, filterText)
          [] OTHER -> currentFilterMatches(f, row)

\* C14: equal holds exactly when the row value and the filter value are the
\* same text case aside, contains exactly when the filter value is, case
\* aside, a substring of the row value; matchingPlayers is the rows on which
\* some filter with a non-empty value holds in that sense.
C14_CaseInsensitive ==
    mPc = "done" =>
        mMatching = SelectSeq(mData, LAMBDA row :
            \E k \in 1..Len(mFilters) :
                /\ ~IsEmptyFilterValue(mFilters[k].filterValue)
                /\ HoldsIgnoringCase(mFilters[k], row))

\* a row matched by equal alone and a row matched by contains alone, each
\* differing from the filter value in case
C14_Witness ==
    /\ mPc = "done"
    /\ Len(mData) = 2
    /\ Len(mFilters) = 2
    /\ mMatching = mData
    /\ mFilters[1].filterType = "equal"
    /\ mFilters[2].filterType = "contains"
    /\ String(Get(mData[1], mFilters[1].filterColumn)) # String(mFilters[1].filterValue)
    /\ HoldsIgnoringCase(mFilters[1], mData[1])
    /\ ~HoldsIgnoringCase(mFilters[2], mData[1])
    /\ ~includes(String(Get(mData[2], mFilters[2].filterColumn)),
                 String(mFilters[2].filterValue))
    /\ HoldsIgnoringCase(mFilters[2], mData[2])
    /\ ~HoldsIgnoringCase(mFilters[1], mData[2])

\* the filter compares a number with a number
ComparesNumbers(f, row) ==
    /\ IsComparison(f)
    /\ Get(row, f.filterColumn).kind = "number"
    /\ f.filterValue.kind = "number"

\* the row value is strictly above (greater) or strictly below (less) the
\* filter value
StrictlyHolds(f, row) ==
    IF f.filterType = "greater"
    THEN Get(row, f.filterColumn).num > f.filterValue.num
    ELSE Get(row, f.filterColumn).num < f.filterValue.num

\* the players of a single Custom category with these filters,
\* allowRepetition=false and no limit
PlayersOfSingle(allData, filters) ==
    applyFilters(allData,
        <<Category(<<"1">>, <<"C">>, "Custom", filters, FALSE, 0, undefined, <<>>)>>
    )[1].players

\* C15: greater and less are strict numeric comparisons of the row value
\* against the filter value, a row value equal to the filter value matching
\* neither; for rows [{age 17}, {age 19}] and one Custom category with the
\* single filter age less 18 and allowRepetition=false, players is exactly
\* the row with age 17.
C15_StrictComparison ==
    mPc = "done" =>
        /\ \A i \in 1..Len(mData) :
               (/\ mFilters # <<>>
                /\ \A k \in 1..Len(mFilters) : ComparesNumbers(mFilters[k], mData[i]))
               => (mData[i] \in Range(mMatching)
                     <=> \E k \in 1..Len(mFilters) : StrictlyHolds(mFilters[k], mData[i]))
        /\ (mData = <<RowAl, RowBo>> /\ mFilters = <<AgeLess18>>
               => /\ mMatching = <<RowAl>>
                  /\ PlayersOfSingle(mData, mFilters) = <<RowAl>>)

\* one row strictly below the filter value and matched, one equal to it and
\* not matched
C15_Witness ==
    /\ mPc = "done"
    /\ Len(mData) = 2
    /\ Len(mFilters) = 1
    /\ mFilters[1].filterType = "less"
    /\ ComparesNumbers(mFilters[1], mData[1])
    /\ ComparesNumbers(mFilters[1], mData[2])
    /\ Get(mData[1], mFilters[1].filterColumn).num < mFilters[1].filterValue.num
    /\ Get(mData[2], mFilters[1].filterColumn).num = mFilters[1].filterValue.num
    /\ mMatching = <<mData[1]>>
    /\ PlayersOfSingle(mData, mFilters) = <<mData[1]>>

\* ============================================== properties of SpecCalls
\* C16: applyFilters never changes the row sequence, starts every call with
\* an empty globalUsedPlayers, and a call with the rows and the category
\* list of the first call returns the same players for every category,
\* whatever calls happened in between.
C16_Pure ==
    /\ (aLog # <<>> => aLog[1] = {})
    /\ (aOut = <<>> => aUsed = {})
    /\ (aPrev # <<>> => aData = aPrev[1].allData)
    /\ (aPrev # <<>> /\ Returned /\ aList = aPrev[1].categoryList
           => \A i \in 1..Len(aOut) : aOut[i].players = aPrev[1].result[i].players)

\* the list of the first call allocated again after a call with another list;
\* its first category took rows without repetition and its second found some
\* of its own rows used
C16_Witness ==
    /\ aPrev # <<>>
    /\ aPrev[1].between
    /\ Returned
    /\ aList = aPrev[1].categoryList
    /\ Len(aList) = 2
    /\ ~aList[1].allowRepetition
    /\ aOut[1].players # <<>>
    /\ aLog[2] # {}
    /\ Len(aOut[2].players) < Len(aData)

\* a non-Open category with zero filters
Malformed(category) == category.type # "Open" /\ category.filters = <<>>

\* the sequence without its i-th element
Without(s, i) == SubSeq(s, 1, i - 1) \o SubSeq(s, i + 1, Len(s))

\* C17: a non-Open category with zero filters gets zero players, adds nothing
\* to the global-used set, and the other categories of the list get the
\* players they get when the list is allocated without it.
C17_NoFiltersNoPlayers ==
    \A i \in Processed :
        Malformed(aList[i]) =>
            /\ aOut[i].players = <<>>
            /\ UsedAfter(i) = aLog[i]
            /\ (Returned =>
                  LET others == applyFilters(aData, Without(aList, i))
                  IN  \A j \in 1..Len(others) :
                          others[j].players = Without(aOut, i)[j].players)

\* a category without filters ahead of a Custom category that takes rows
C17_Witness ==
    /\ Returned
    /\ Len(aList) = 2
    /\ Malformed(aList[1])
    /\ ~aList[1].allowRepetition
    /\ aData # <<>>
    /\ aList[2].type # "Open"
    /\ ~aList[2].allowRepetition
    /\ aOut[1].players = <<>>
    /\ aOut[2].players # <<>>

\* ============================================= properties of SpecMatch, III
\* the filter value is '' or undefined
IsWildcard(f) ==
    \/ f.filterValue.kind = "undefined"
    \/ f.filterValue = Str(<<>>)

\* C18: a filter whose filterValue is empty or undefined never excludes a
\* row: the rows matched with such a filter in the list are the rows matched
\* by the list without it.
C18_WildcardChangesNothing ==
    mPc = "done" =>
        \A k \in 1..Len(mFilters) :
            IsWildcard(mFilters[k]) =>
                mMatching = matchingPlayers(mData, Without(mFilters, k))

\* a wildcard filter ahead of a filter that matches one row of two, one of
\* the rows having the empty value the wildcard would compare with
C18_Witness ==
    /\ mPc = "done"
    /\ Len(mFilters) = 2
    /\ IsWildcard(mFilters[1])
    /\ ~IsWildcard(mFilters[2])
    /\ Len(mData) = 2
    /\ String(Get(mData[1], mFilters[1].filterColumn)) = <<>>
    /\ mMatching = <<mData[2]>>

\* ========================================== properties of SpecCalls, II
\* the list with the filters of its i-th category taken away
WithoutFilters(list, i) == [list EXCEPT ![i].filters = <<>>]

\* C19: an Open category bypasses filter evaluation: its players are its
\* pool (the rows not yet used, or all rows with allowRepetition) cut to its
\* limit, and every category of the list gets the players it gets when the
\* Open category's filters list is empty.
C19_OpenBypassesFilters ==
    \A i \in Processed :
        aList[i].type = "Open" =>
            /\ aOut[i].players =
                   IF aList[i].limit # undefined
                   THEN FirstRows(Pool(i), aList[i].limit.num)
                   ELSE Pool(i)
            /\ (Returned =>
                  LET bare == applyFilters(aData, WithoutFilters(aList, i))
                  IN  \A j \in 1..Len(aList) : aOut[j].players = bare[j].players)

\* an Open category holding a row that its own filter does not match, ahead
\* of a category that matches that row and does not get it
C19_Witness ==
    /\ Returned
    /\ Len(aList) = 2
    /\ aList[1].type = "Open"
    /\ aList[1].filters # <<>>
    /\ aOut[1].players # <<>>
    /\ ~SomeFilterHolds(aOut[1].players[1], aList[1].filters)
    /\ aList[2].type # "Open"
    /\ SomeFilterHolds(aOut[1].players[1], aList[2].filters)
    /\ aOut[1].players[1] \notin Range(aOut[2].players)

\* ================================================= properties of Spec, III
\* the file passes every check of handleFile
PassesChecks(file) ==
    /\ IsExcelName(file.name)
    /\ file.size <= MaxFileSize
    /\ Len(file.jsonData) >= 2
    /\ \E r \in 2..Len(file.jsonData) :
           \E c \in 1..Len(file.jsonData[r]) : IsFilledCell(file.jsonData[r][c])

\* the step is a rejected upload: an error message is set and the rows, the
\* columns and the stored categories stay as they are
RejectionKeepsStore ==
    lastOp'.op = "rejected" =>
        /\ error' # "null"
        /\ UNCHANGED <<tournamentData, columns, categories>>

\* the step is a call of onDataUpload: the file it comes from passes every check
UploadOnlyAccepted ==
    lastOp'.op = "upload" =>
        \E file \in Files :
            /\ PassesChecks(file)
            /\ tournamentData' = processedData(file.jsonData)
            /\ columns' = file.jsonData[1]

NonEmptyRow(row) == \E c \in 1..Len(row) : row[c] # undefined /\ row[c] # Str(<<>>)

\* the cell under the c-th header: its value when the row has it, '' when it
\* is missing
CellOrBlank(row, c) ==
    IF c <= Len(row) /\ row[c] # undefined THEN row[c] ELSE Str(<<>>)

\* the Row a data row is to become: the header names as keys, in their order
RowOf(headers, row) == [c \in 1..Len(headers) |-> <<headers[c], CellOrBlank(row, c)>>]

\* C21: every non-empty data row after the header becomes exactly one Row
\* whose keys are the header names, holding each present cell's value under
\* its header and the empty string for each missing cell, in sheet order.
C21_OneRowPerDataRow ==
    (iPc \in {"uploaded", "rejected"} /\ Len(iSheet) >= 2) =>
        LET dataRows == SelectSeq(Tail(iSheet), NonEmptyRow)
        IN  /\ Len(iRows) = Len(dataRows)
            /\ \A i \in 1..Len(dataRows) : iRows[i] = RowOf(iSheet[1], dataRows[i])

\* ================================================== properties of Spec, IV
\* C25: in every reachable state, also after an upload that completes while
\* categories are stored, each stored category's players are what applyFilters
\* computes from the current rows and the current list.
C25_PlayersAlwaysCurrent ==
    \A i \in 1..Len(categories) :
        categories[i].players = applyFilters(tournamentData, categories)[i].players

\* ============================================== properties of SpecOrder
\* the players of a category of the list
PlayersOf(list) == [i \in 1..Len(list) |-> list[i].players]

\* C26: the players of the category at position i depend only on the rows and
\* on the categories at positions 0..i: they are the players the list cut
\* after position i gives it, and the list without its last category gives
\* every earlier category the players it has in the whole list.
C26_PrefixDetermines ==
    /\ \A i \in Processed :
           aOut[i].players = applyFilters(aData, SubSeq(aList, 1, i))[i].players
    /\ (Returned /\ Len(aList) >= 1) =>
           PlayersOf(applyFilters(aData, SubSeq(aList, 1, Len(aList) - 1)))
               = SubSeq(PlayersOf(aOut), 1, Len(aList) - 1)

\* a list with a category appended to a category that has players, and a
\* category whose players are not those it gets alone
C26_Witness ==
    /\ Returned
    /\ Len(aList) >= 2
    /\ aOut[1].players # <<>>
    /\ \E i \in 2..Len(aList) :
           aOut[i].players # applyFilters(aData, <<aList[i]>>)[1].players


\* C27: a category with allowRepetition = true adds nothing to the used set:
\* the list without it gives every other category the players it has in the
\* list with it, and the rows it selected stay available to the categories
\* after it.
C27_RepetitionMarksNothing ==
    \A i \in Processed :
        aList[i].allowRepetition =>
            /\ UsedAfter(i) = aLog[i]
            /\ Returned =>
                   PlayersOf(applyFilters(aData, Without(aList, i)))
                       = Without(PlayersOf(aOut), i)

\* a row selected by a category with repetition is a player of a later
\* category without repetition
C27_Witness ==
    /\ Returned
    /\ \E i, j \in Processed :
           /\ i < j
           /\ aList[i].allowRepetition
           /\ ~aList[j].allowRepetition
           /\ \E row \in Range(aOut[i].players) : row \in Range(aOut[j].players)


\* ========================================== properties of SpecAlloc, II
\* the rows of the sheet are pairwise distinct
DistinctRows == \A m, n \in 1..Len(aData) : m # n => aData[m] # aData[n]

\* no category repeats players, and the last one is Open without a limit
ClosedByOpen ==
    /\ Len(aList) >= 1
    /\ \A i \in 1..Len(aList) : ~aList[i].allowRepetition
    /\ aList[Len(aList)].type = "Open"
    /\ aList[Len(aList)].limit = undefined

\* how many times the row is a player of the categories of the list
RECURSIVE Occurrences(_, _, _)
Occurrences(row, list, i) ==
    IF i > Len(list) THEN 0
    ELSE Cardinality({n \in 1..Len(list[i].players) : list[i].players[n] = row})
             + Occurrences(row, list, i + 1)

\* C28: with pairwise distinct rows, no category allowing repetition and an
\* Open category without limit at the end, the players lists partition the
\* rows: every row is in exactly one category, exactly once.
C28_Partition ==
    (Returned /\ DistinctRows /\ ClosedByOpen) =>
        /\ \A n \in 1..Len(aData) : Occurrences(aData[n], aOut, 1) = 1
        /\ \A i \in Processed : Range(aOut[i].players) \subseteq Range(aData)

\* two rows, one taken by a filtered category and the other by the closing
\* Open category
C28_Witness ==
    /\ Returned
    /\ DistinctRows
    /\ ClosedByOpen
    /\ Len(aData) = 2
    /\ Len(aList) = 2
    /\ Len(aOut[1].players) = 1
    /\ Len(aOut[2].players) = 1


\* the positions of a strictly increasing choice of len rows out of n
Increasing(pos, n) ==
    /\ \A k \in 1..Len(pos) : pos[k] \in 1..n
    /\ \A k \in 1..(Len(pos) - 1) : pos[k] < pos[k + 1]

\* players is rows with some positions left out
IsSubsequence(players, rows) ==
    \E pos \in SeqsUpTo(1..Len(rows), Len(players)) :
        /\ Len(pos) = Len(players)
        /\ Increasing(pos, Len(rows))
        /\ \A k \in 1..Len(players) : players[k] = rows[pos[k]]

\* C30: the players of every category are an order-preserving subsequence of
\* the rows: each player is a row, no row position is taken twice by one
\* category, and the players keep the order the rows have in the sheet.
C30_PlayersSubsequence ==
    \A i \in Processed : IsSubsequence(aOut[i].players, aData)

\* a category that leaves out the first row and keeps the second
C30_Witness ==
    \E i \in Processed :
        /\ Len(aData) = 2
        /\ aData[1] # aData[2]
        /\ aOut[i].players = <<aData[2]>>


\* ========================================== properties of SpecOrder, II
\* the players the category at position from of the list has after the move
\* of the category at position moved to position to
PlayersAfterMove(from, moved, to) ==
    LET list == arrayMove(aList, moved, to)
    IN  applyFilters(aData, list)[findIndex(list, aList[from].id)].players

\* C29: a category moved to an earlier position, the others keeping their
\* relative order, gets at least as many players as before; a category with
\* allowRepetition = true has the same players after any move.
C29_EarlierNeverFewer ==
    Returned =>
        \A from, to \in 1..Len(aList) :
            /\ to < from =>
                   Len(PlayersAfterMove(from, from, to)) >= Len(aOut[from].players)
            /\ \A i \in 1..Len(aList) :
                   aList[i].allowRepetition =>
                       PlayersAfterMove(i, from, to) = aOut[i].players

\* a category without repetition that gets more players once moved to the
\* front
C29_Witness ==
    /\ Returned
    /\ Len(aList) = 2
    /\ ~aList[2].allowRepetition
    /\ Len(PlayersAfterMove(2, 2, 1)) > Len(aOut[2].players)

\* ================================================== properties of Spec, V
\* the definitions of the list, players left out
Definitions(list) ==
    [i \in 1..Len(list) |->
        [id |-> list[i].id, name |-> list[i].name, type |-> list[i].type,
         filters |-> list[i].filters, allowRepetition |-> list[i].allowRepetition,
         priority |-> list[i].priority, limit |-> list[i].limit]]

\* the step adds one category behind those stored by the step before
AddKeepsStored ==
    lastOp'.op = "add" =>
        /\ Len(categories') = Len(categories) + 1
        /\ SubSeq(Definitions(categories'), 1, Len(categories)) = Definitions(categories)

\* the step edits the categories of one id and keeps the definitions of the
\* others stored by the step before
UpdateKeepsStored ==
    lastOp'.op = "update" =>
        /\ Len(categories') = Len(categories)
        /\ \E id \in StoredIds :
               \A i \in 1..Len(categories) :
                   /\ categories'[i].id = categories[i].id
                   /\ categories'[i].priority = categories[i].priority
                   /\ categories[i].id # id =>
                          SameDefinition(categories'[i], categories[i])

\* the step removes the categories of one id from those stored by the step
\* before
DeleteKeepsStored ==
    lastOp'.op = "delete" =>
        \E id \in StoredIds :
            Definitions(categories')
                = SelectSeq(Definitions(categories), LAMBDA d : d.id # id)

\* the step moves one category of those stored by the step before
ReorderKeepsStored ==
    lastOp'.op \in ReorderOps =>
        \E from, to \in 1..Len(categories) :
            LET moved == arrayMove(Definitions(categories), from, to)
            IN  Definitions(categories')
                    = [i \in 1..Len(moved) |-> [moved[i] EXCEPT !.priority = i - 1]]

FormLacks ==
    \/ Len(formData.name) = 0
    \/ (formData.type # "Open" /\ formData.filters = <<>>)
    \/ \E f \in Range(formData.filters) : f.filterColumn = ""

\* C23: whatever was submitted, edited, deleted and reordered through the
\* category form, every stored category that is not Open has a filter and
\* every stored filter has a column; and the submission of a form with an empty
\* name, with a type that is not Open and no filter, or with a filter lacking
\* its column changes neither the stored categories nor the form.
C23_StoredFiltersValid ==
    /\ \A i \in 1..Len(categories) :
           /\ categories[i].type # "Open" => Len(categories[i].filters) >= 1
           /\ \A f \in Range(categories[i].filters) : f.filterColumn # ""
    /\ (showForm /\ FormLacks) =>
           handleSubmit = FormState(categories, now, formData, editId, showForm)

\* a category that is not Open is stored and was moved behind another one; the
\* form, opened on a stored category, has a name and a filter without a column
C23_Witness ==
    /\ Len(categories) = 2
    /\ categories[2].type # "Open"
    /\ categories[2].priority = 1
    /\ categories[2].id = NatToString(0)
    /\ showForm
    /\ editId \in StoredIds
    /\ formData.name # <<>>
    /\ formData.filters = <<BlankFilter>>

\* ============================================== properties of SpecFrame
\* the delete removes the categories of the id and keeps the definitions and
\* the order of the others; with an id that is not stored it keeps them all
DeleteRemovesOnlyId ==
    lastOp'.op = "delete" =>
        IF lastOp'.from = 0
        THEN Definitions(categories') = Definitions(categories)
        ELSE LET id == categories[lastOp'.from].id
             IN  /\ \A d \in Range(Definitions(categories')) : d.id # id
                 /\ Definitions(categories')
                        = SelectSeq(Definitions(categories), LAMBDA d : d.id # id)

\* the update of an id that is not stored keeps every definition
UpdateOfAbsentKeeps ==
    (lastOp'.op = "update" /\ lastOp'.from = 0) =>
        Definitions(categories') = Definitions(categories)

\* C24: deleteCategory(id) removes exactly the categories whose id is id and
\* keeps the definitions and the relative order of the others; with no stored
\* category of that id it changes no definition, and neither does
\* updateCategory(id, partial) with such an id.
C24_DeleteUpdateFrame ==
    [][DeleteRemovesOnlyId /\ UpdateOfAbsentKeeps]_vars

\* a delete with an id that no stored category has, two categories being
\* stored
C24_Witness ==
    /\ lastOp.op = "delete"
    /\ lastOp.from = 0
    /\ Len(categories) = 2

====
